---------------------------- MODULE Spec2Model ----------------------------
(***************************************************************************)
(* Persistence core of MedAssureAI: the hierarchical artifact store over   *)
(* DynamoDB (agents/dynamodb_tools.py, backend/api/projects.py) and the    *)
(* session state manager over OpenSearch (backend/services/                *)
(* session_service.py, backend/services/opensearch_client.py).             *)
(*                                                                         *)
(* A string with '#' separators is modelled as the sequence of its         *)
(* '#'-free tokens: "EPIC#E1#FEATURE#F1" is <<"EPIC","E1","FEATURE","F1">>.*)
(* A DynamoDB attribute value {'S': x} / {'N': str(n)} / {'M': m} is the   *)
(* record [S |-> x] / [N |-> n] / [M |-> m].                               *)
(***************************************************************************)
EXTENDS Integers, Sequences, FiniteSets, TLC

\* ------------------------------------------------------------------ bounds
\* Largest number of entities (epics + features + use cases + test cases) in
\* the input tree of a store_test_artifacts call: of a single call on an
\* empty table (MaxNodes), and of each of two successive calls (MaxNodesSeq).
MaxNodes == 5
MaxNodesSeq == 2

ProjectIds == {"P1", "P2"}
EpicIds == {"E1", "E2"}
FeatureIds == {"F1"}
UseCaseIds == {"U1"}
TestCaseIds == {"T1", "T2"}
\* The callers of store_test_artifacts; each makes one call, and w1 names
\* the one that calls first.
Writers == {"w1", "w2"}
\* The field values an input entity carries: its name/title, and optionally
\* a priority (absent in the first).
Variants == {[name |-> "a"], [name |-> "b", priority |-> "High"]}

\* ------------------------------------------------------------ Python helpers
\* dict.get(k, default)
Get(d, k, default) == IF k \in DOMAIN d THEN d[k] ELSE default

\* Python truthiness of d.get(k) for string values
Truthy(d, k) == k \in DOMAIN d /\ d[k] # ""

\* A record extended / overridden by another (dict.update, item[k] = v)
Merge(d, e) ==
  [k \in DOMAIN d \cup DOMAIN e |-> IF k \in DOMAIN e THEN e[k] ELSE d[k]]

RECURSIVE ConcatAll(_)
ConcatAll(ss) == IF ss = <<>> THEN <<>> ELSE Head(ss) \o ConcatAll(Tail(ss))

IsPrefixOf(s, t) == Len(s) <= Len(t) /\ SubSeq(t, 1, Len(s)) = s

\* ------------------------------------------------------------------- state
VARIABLES
  table,   \* the DynamoDB table: <<PK, SK>> -> item
  wcall,   \* per writer: its store_test_artifacts call
  clock,   \* the source of datetime.utcnow() for the artifact store
  resp     \* the last call of a reader or an update tool, <<>> when none is held

avars == <<table, wcall, clock, resp>>

VARIABLES
  index,       \* the session index: doc id -> document
  seen,        \* the documents reads are served from
  lag,         \* seconds until the writes to index are visible in seen
  serverless,  \* OpenSearchClient.is_serverless
  now,         \* the source of datetime.utcnow() for sessions, in hours
  scall        \* per caller: its SessionService call

svars == <<index, seen, lag, serverless, now, scall>>

vars == <<table, wcall, clock, resp, index, seen, lag, serverless, now, scall>>

\* ---------------------------------------------------------------- key codec
\* The one identifier of the model that contains '#'.
HashId == "E1#FEATURE#F1"

\* The '#'-free tokens of an identifier, id.split('#').
Tokens(id) == IF id = HashId THEN <<"E1", "FEATURE", "F1">> ELSE <<id>>

\* f'PROJECT#{project_id}'
PK(project_id) == <<"PROJECT">> \o Tokens(project_id)

\* f'EPIC#{epic_id}'
EpicSK(epic_id) == <<"EPIC">> \o Tokens(epic_id)

\* f'EPIC#{epic_id}#FEATURE#{feature_id}'
FeatureSK(epic_id, feature_id) ==
  <<"EPIC">> \o Tokens(epic_id) \o <<"FEATURE">> \o Tokens(feature_id)

\* A use-case key that leaves out the ancestors.
UseCaseSKShort(epic_id, feature_id, use_case_id) ==
  <<"UC">> \o Tokens(use_case_id)

\* f'EPIC#{epic_id}#FEATURE#{feature_id}#UC#{use_case_id}'
UseCaseSK(epic_id, feature_id, use_case_id) ==
  <<"EPIC">> \o Tokens(epic_id) \o <<"FEATURE">> \o Tokens(feature_id)
  \o <<"UC">> \o Tokens(use_case_id)

\* f'EPIC#{epic_id}#FEATURE#{feature_id}#UC#{use_case_id}#TC#{test_case_id}'
TestCaseSK(epic_id, feature_id, use_case_id, test_case_id) ==
  <<"EPIC">> \o Tokens(epic_id) \o <<"FEATURE">> \o Tokens(feature_id)
  \o <<"UC">> \o Tokens(use_case_id) \o <<"TC">> \o Tokens(test_case_id)

MetadataSK == <<"METADATA">>

\* ------------------------------------------------------------ input trees
\* The path of an entity is the tuple of ids from its epic down to itself.
LevelIds(depth) ==
  CASE depth = 1 -> EpicIds
    [] depth = 2 -> FeatureIds
    [] depth = 3 -> UseCaseIds
    [] depth = 4 -> TestCaseIds

\* The paths that can follow the preorder listing s: a child of the last
\* entity or of one of its ancestors (or a new epic), not listed yet.
NextPaths(s) ==
  LET last == IF s = <<>> THEN <<>> ELSE s[Len(s)].path
      top == IF Len(last) < 3 THEN Len(last) ELSE 3
  IN  UNION { { Append(SubSeq(last, 1, k), id) : id \in LevelIds(k + 1) } :
              k \in 0..top }
      \ { s[i].path : i \in 1..Len(s) }

RECURSIVE Preorders(_)
\* The preorder listings (of paths) of the trees with exactly n entities.
Preorders(n) ==
  IF n = 0 THEN { <<>> }
  ELSE UNION { { Append(s, [path |-> p]) : p \in NextPaths(s) } :
               s \in Preorders(n - 1) }

\* The listing s with the field values v on every entity.
WithData(s, v) == [i \in 1..Len(s) |-> [path |-> s[i].path, data |-> v]]

\* The entities of the listing s directly under the path parent, in order.
Children(s, parent) ==
  LET IsChild(n) == Len(n.path) = Len(parent) + 1 /\ IsPrefixOf(parent, n.path)
  IN  SelectSeq(s, IsChild)

Last(path) == path[Len(path)]

OptionalPriority(n) ==
  IF "priority" \in DOMAIN n.data THEN [priority |-> n.data.priority]
  ELSE << >>

\* The nested input dictionaries, as the caller passes them.
TestCaseDict(s, n) ==
  Merge([test_case_id |-> Last(n.path), test_case_title |-> n.data.name],
        OptionalPriority(n))

UseCaseDict(s, n) ==
  LET cs == Children(s, n.path)
  IN  Merge([use_case_id |-> Last(n.path), title |-> n.data.name,
             test_cases |-> [i \in 1..Len(cs) |-> TestCaseDict(s, cs[i])]],
            OptionalPriority(n))

FeatureDict(s, n) ==
  LET cs == Children(s, n.path)
  IN  Merge([feature_id |-> Last(n.path), feature_name |-> n.data.name,
             use_cases |-> [i \in 1..Len(cs) |-> UseCaseDict(s, cs[i])]],
            OptionalPriority(n))

EpicDict(s, n) ==
  LET cs == Children(s, n.path)
  IN  Merge([epic_id |-> Last(n.path), epic_name |-> n.data.name,
             features |-> [i \in 1..Len(cs) |-> FeatureDict(s, cs[i])]],
            OptionalPriority(n))

EpicsOf(s) ==
  LET cs == Children(s, <<>>)
  IN  [i \in 1..Len(cs) |-> EpicDict(s, cs[i])]

\* Every input tree of at most MaxNodes entities (the epics argument).
\* Every input tree of at most maxn entities (the epics argument); the
\* entities of one call carry the same field values.
InputTrees(maxn) ==
  { EpicsOf(WithData(s, v)) :
      s \in UNION { Preorders(n) : n \in 0..maxn }, v \in Variants }

SingleTrees == InputTrees(MaxNodes)

SeqTrees == InputTrees(MaxNodesSeq)

\* ------------------------------------------------- DynamoDB table (boto3)
\* The table is a function from the keys present, <<PK, SK>>, to items.
EmptyTable == << >>

KeyOf(item) == <<item.PK.S, item.SK.S>>

\* put_item keeping the created_at of the item it replaces.
PutItemKeepCreated(tbl, item) ==
  [k \in DOMAIN tbl \cup {KeyOf(item)} |->
     IF k = KeyOf(item)
     THEN (IF k \in DOMAIN tbl
           THEN [item EXCEPT !.created_at = tbl[k].created_at]
           ELSE item)
     ELSE tbl[k]]

\* put_item: the item replaces whatever is stored under its key.
PutItem(tbl, item) ==
  [k \in DOMAIN tbl \cup {KeyOf(item)} |->
     IF k = KeyOf(item) THEN item ELSE tbl[k]]

RECURSIVE PutAll(_, _)
PutAll(tbl, items) ==
  IF items = <<>> THEN tbl ELSE PutAll(PutItem(tbl, Head(items)), Tail(items))

\* ------------------------------------------- DynamoDBTools (the writer)
\* The Jira and the list-valued optional attributes follow the pattern of
\* priority (written when the input has them) and are left out.
S(x) == [S |-> x]

\* Counts read back from the table rather than computed from the input.
_count_artifacts_stored(epics) ==
  LET n(len) == Cardinality({ k \in DOMAIN table : Len(k[2]) = len })
  IN  [epics |-> n(2), features |-> n(4), use_cases |-> n(6), test_cases |-> n(8)]

_count_artifacts(epics) ==
  LET features == ConcatAll([i \in 1..Len(epics) |->
                               Get(epics[i], "features", <<>>)])
      use_cases == ConcatAll([i \in 1..Len(features) |->
                                Get(features[i], "use_cases", <<>>)])
      test_cases == ConcatAll([i \in 1..Len(use_cases) |->
                                 Get(use_cases[i], "test_cases", <<>>)])
  IN  [epics |-> Len(epics), features |-> Len(features),
       use_cases |-> Len(use_cases), test_cases |-> Len(test_cases)]

project_item(project_id, project_name, session_id, epics, timestamp) ==
  LET artifact_counts == _count_artifacts(epics)
  IN  [PK |-> S(PK(project_id)), SK |-> S(MetadataSK),
       project_id |-> S(project_id), project_name |-> S(project_name),
       session_id |-> S(session_id),
       created_at |-> S(timestamp), updated_at |-> S(timestamp),
       artifact_counts |->
         [M |-> [epics |-> [N |-> artifact_counts.epics],
                 features |-> [N |-> artifact_counts.features],
                 use_cases |-> [N |-> artifact_counts.use_cases],
                 test_cases |-> [N |-> artifact_counts.test_cases]]]]

test_case_item(project_id, epic_id, feature_id, use_case_id, test_case, timestamp) ==
  LET test_case_id == Get(test_case, "test_case_id", "UNKNOWN")
  IN  [PK |-> S(PK(project_id)),
       SK |-> S(TestCaseSK(epic_id, feature_id, use_case_id, test_case_id)),
       epic_id |-> S(epic_id), feature_id |-> S(feature_id),
       use_case_id |-> S(use_case_id), test_case_id |-> S(test_case_id),
       test_case_title |-> S(Get(test_case, "test_case_title", "")),
       test_type |-> S(Get(test_case, "test_type", "Functional")),
       priority |-> S(Get(test_case, "priority", "Medium")),
       expected_result |-> S(Get(test_case, "expected_result", "")),
       review_status |-> S(Get(test_case, "review_status", "Pending")),
       created_at |-> S(timestamp), updated_at |-> S(timestamp)]

\* The puts of _store_test_case, in order.
_store_test_case(project_id, epic_id, feature_id, use_case_id, test_case, timestamp) ==
  << test_case_item(project_id, epic_id, feature_id, use_case_id, test_case,
                    timestamp) >>

use_case_item(project_id, epic_id, feature_id, use_case, timestamp) ==
  LET use_case_id == Get(use_case, "use_case_id", "UNKNOWN")
  IN  [PK |-> S(PK(project_id)),
       SK |-> S(UseCaseSK(epic_id, feature_id, use_case_id)),
       epic_id |-> S(epic_id), feature_id |-> S(feature_id),
       use_case_id |-> S(use_case_id),
       title |-> S(Get(use_case, "title", "")),
       description |-> S(Get(use_case, "description", "")),
       priority |-> S(Get(use_case, "priority", "Medium")),
       review_status |-> S(Get(use_case, "review_status", "Pending")),
       created_at |-> S(timestamp), updated_at |-> S(timestamp)]

\* The puts of _store_use_case: the use case, then each test case.
_store_use_case(project_id, epic_id, feature_id, use_case, timestamp) ==
  LET use_case_id == Get(use_case, "use_case_id", "UNKNOWN")
      test_cases == Get(use_case, "test_cases", <<>>)
  IN  << use_case_item(project_id, epic_id, feature_id, use_case, timestamp) >>
      \o ConcatAll([i \in 1..Len(test_cases) |->
                      _store_test_case(project_id, epic_id, feature_id,
                                       use_case_id, test_cases[i], timestamp)])

feature_item(project_id, epic_id, feature, timestamp) ==
  LET feature_id == Get(feature, "feature_id", "UNKNOWN")
  IN  [PK |-> S(PK(project_id)), SK |-> S(FeatureSK(epic_id, feature_id)),
       epic_id |-> S(epic_id), feature_id |-> S(feature_id),
       feature_name |-> S(Get(feature, "feature_name", "")),
       description |-> S(Get(feature, "description", "")),
       priority |-> S(Get(feature, "priority", "Medium")),
       created_at |-> S(timestamp), updated_at |-> S(timestamp)]

\* The puts of _store_feature: the feature, then each use case.
_store_feature(project_id, epic_id, feature, timestamp) ==
  LET feature_id == Get(feature, "feature_id", "UNKNOWN")
      use_cases == Get(feature, "use_cases", <<>>)
  IN  << feature_item(project_id, epic_id, feature, timestamp) >>
      \o ConcatAll([i \in 1..Len(use_cases) |->
                      _store_use_case(project_id, epic_id, feature_id,
                                      use_cases[i], timestamp)])

\* An epic item that also carries a revision mark that differs between the
\* first call and the later ones.
epic_item_revised(project_id, epic, timestamp) ==
  LET epic_id == Get(epic, "epic_id", "UNKNOWN")
  IN  [PK |-> S(PK(project_id)), SK |-> S(EpicSK(epic_id)),
       epic_id |-> S(epic_id),
       epic_name |-> S(Get(epic, "epic_name", "")),
       description |-> S(Get(epic, "description", "")),
       priority |-> S(Get(epic, "priority", "Medium")),
       revision |-> S(IF timestamp = 1 THEN "first" ELSE "later"),
       created_at |-> S(timestamp), updated_at |-> S(timestamp)]

epic_item(project_id, epic, timestamp) ==
  LET epic_id == Get(epic, "epic_id", "UNKNOWN")
  IN  [PK |-> S(PK(project_id)), SK |-> S(EpicSK(epic_id)),
       epic_id |-> S(epic_id),
       epic_name |-> S(Get(epic, "epic_name", "")),
       description |-> S(Get(epic, "description", "")),
       priority |-> S(Get(epic, "priority", "Medium")),
       created_at |-> S(timestamp), updated_at |-> S(timestamp)]

\* The puts of _store_epic: the epic, then each feature.
\* _store_epic putting the features of the epic before the epic.
_store_epic_last(project_id, epic, timestamp) ==
  LET epic_id == Get(epic, "epic_id", "UNKNOWN")
      features == Get(epic, "features", <<>>)
  IN  ConcatAll([i \in 1..Len(features) |->
                   _store_feature(project_id, epic_id, features[i], timestamp)])
      \o << epic_item(project_id, epic, timestamp) >>

_store_epic(project_id, epic, timestamp) ==
  LET epic_id == Get(epic, "epic_id", "UNKNOWN")
      features == Get(epic, "features", <<>>)
  IN  << epic_item(project_id, epic, timestamp) >>
      \o ConcatAll([i \in 1..Len(features) |->
                      _store_feature(project_id, epic_id, features[i], timestamp)])

\* The puts store_test_artifacts issues when none fails, in order: the
\* project metadata, then each epic with everything under it.
StorePuts(project_id, project_name, session_id, epics, timestamp) ==
  << project_item(project_id, project_name, session_id, epics, timestamp) >>
  \o ConcatAll([i \in 1..Len(epics) |-> _store_epic(project_id, epics[i], timestamp)])

\* The dictionary store_test_artifacts returns after the last put.
StoreSuccess(project_id, project_name, epics, timestamp) ==
  [success |-> TRUE, project_id |-> project_id, project_name |-> project_name,
   artifact_counts |-> _count_artifacts(epics), stored_at |-> timestamp]

\* The dictionary store_test_artifacts returns from its except clauses.
StoreError(project_id) ==
  [success |-> FALSE, error |-> "DynamoDB error storing artifacts",
   project_id |-> project_id]

\* ------------------------------------------------------- query (boto3)
\* The tokens of the model in ascending string order ('#' sorts before
\* every letter and digit, so strings compare as their token sequences do).
TokenOrder ==
  <<"E1", "E2", "EPIC", "F1", "FEATURE", "METADATA", "T1", "T2", "TC", "U1", "UC">>

Rank(tok) == CHOOSE i \in 1..Len(TokenOrder) : TokenOrder[i] = tok

RECURSIVE SKLess(_, _)
SKLess(a, b) ==
  IF a = <<>> THEN b # <<>>
  ELSE IF b = <<>> THEN FALSE
  ELSE IF Head(a) = Head(b) THEN SKLess(Tail(a), Tail(b))
  ELSE Rank(Head(a)) < Rank(Head(b))

RECURSIVE SortedBySK(_)
\* The items of a set in ascending sort-key order.
SortedBySK(items) ==
  IF items = {} THEN <<>>
  ELSE LET first == CHOOSE x \in items :
                      \A y \in items \ {x} : SKLess(x.SK.S, y.SK.S)
       IN  <<first>> \o SortedBySK(items \ {first})

\* Query as a scan that matches the 'PROJECT#' prefix of the partition key
\* and not the project id.
QueryAnyProject(tbl, pk) ==
  SortedBySK({ tbl[k] : k \in { k \in DOMAIN tbl : k[1][1] = pk[1] } })

\* query(KeyConditionExpression='PK = :pk'): the items of one partition, in
\* sort-key order.
Query(tbl, pk) ==
  SortedBySK({ tbl[k] : k \in { k \in DOMAIN tbl : k[1] = pk } })

\* ------------------------------------------------ reading (both readers)
\* _parse_dynamodb_item / _parse_dynamodb_value, on the attribute types the
\* writer produces.
RECURSIVE _parse_dynamodb_item(_)
_parse_dynamodb_item(item) ==
  [k \in DOMAIN item |->
     IF "S" \in DOMAIN item[k] THEN item[k].S
     ELSE IF "N" \in DOMAIN item[k] THEN item[k].N
     ELSE _parse_dynamodb_item(item[k].M)]

\* A Python dict is modelled as the sequence of its <<key, value>> pairs in
\* insertion order.
DictHas(d, key) == \E i \in 1..Len(d) : d[i][1] = key

DictGet(d, key) == d[CHOOSE i \in 1..Len(d) : d[i][1] = key][2]

\* d[key] = value
DictSet(d, key, value) ==
  IF DictHas(d, key)
  THEN [i \in 1..Len(d) |-> IF d[i][1] = key THEN <<key, value>> ELSE d[i]]
  ELSE Append(d, <<key, value>>)

\* 'EPIC#' prefix and '#X#' substring tests on a sort key
StartsWithEpic(sk) == Len(sk) >= 2 /\ sk[1] = "EPIC"

Contains(sk, tok) == \E i \in 2..(Len(sk) - 1) : sk[i] = tok

\* One iteration of the classification loop of the API's
\* get_project_artifacts.
ClassifyItem(st, item) ==
  LET sk == item.SK.S
      parsed == _parse_dynamodb_item(item)
  IN  IF sk = MetadataSK THEN [st EXCEPT !.metadata = <<parsed>>]
      ELSE IF StartsWithEpic(sk) /\ ~Contains(sk, "FEATURE")
      THEN [st EXCEPT !.epics_map =
              DictSet(@, Get(parsed, "epic_id", ""), parsed)]
      ELSE IF Contains(sk, "FEATURE") /\ ~Contains(sk, "UC")
      THEN [st EXCEPT !.features_map =
              DictSet(@, Get(parsed, "feature_id", ""),
                      [data |-> parsed, epic_id |-> Get(parsed, "epic_id", "")])]
      ELSE IF Contains(sk, "UC") /\ ~Contains(sk, "TC")
      THEN [st EXCEPT !.use_cases_map =
              DictSet(@, Get(parsed, "use_case_id", ""),
                      [data |-> parsed,
                       feature_id |-> Get(parsed, "feature_id", "")])]
      ELSE IF Contains(sk, "TC")
      THEN LET use_case_id == Get(parsed, "use_case_id", "")
               sofar == IF DictHas(st.test_cases_map, use_case_id)
                        THEN DictGet(st.test_cases_map, use_case_id) ELSE <<>>
           IN  [st EXCEPT !.test_cases_map =
                  DictSet(@, use_case_id, Append(sofar, parsed))]
      ELSE st

RECURSIVE ClassifyAll(_, _)
ClassifyAll(st, items) ==
  IF items = <<>> THEN st
  ELSE ClassifyAll(ClassifyItem(st, Head(items)), Tail(items))

\* The three attachment loops: test cases to use cases by use_case_id, use
\* cases to features by feature_id, features to epics by epic_id.
Reconstruct(st) ==
  LET use_case(i) ==
        LET key == st.use_cases_map[i][1]
            data == st.use_cases_map[i][2].data
        IN  Merge(data, [test_cases |->
                           IF DictHas(st.test_cases_map, key)
                           THEN DictGet(st.test_cases_map, key) ELSE <<>>])
      feature(j) ==
        LET key == st.features_map[j][1]
            data == st.features_map[j][2].data
            mine == SelectSeq([i \in 1..Len(st.use_cases_map) |-> i],
                              LAMBDA i : st.use_cases_map[i][2].feature_id = key)
        IN  Merge(data, [use_cases |-> [n \in 1..Len(mine) |-> use_case(mine[n])]])
      epic(k) ==
        LET key == st.epics_map[k][1]
            data == st.epics_map[k][2]
            mine == SelectSeq([j \in 1..Len(st.features_map) |-> j],
                              LAMBDA j : st.features_map[j][2].epic_id = key)
        IN  Merge(data, [features |-> [n \in 1..Len(mine) |-> feature(mine[n])]])
  IN  [k \in 1..Len(st.epics_map) |-> epic(k)]

\* backend/api/projects.py: GET /api/projects/{project_id}/artifacts
get_project_artifacts(tbl, project_id) ==
  LET items == Query(tbl, PK(project_id))
      st == ClassifyAll([metadata |-> <<>>, epics_map |-> <<>>,
                         features_map |-> <<>>, use_cases_map |-> <<>>,
                         test_cases_map |-> <<>>], items)
  IN  IF items = <<>>
      THEN [success |-> FALSE, project_id |-> project_id,
            error |-> "No artifacts found"]
      ELSE [success |-> TRUE, project_id |-> project_id,
            project_name |-> IF st.metadata # <<>>
                             THEN Get(st.metadata[1], "project_name", "")
                             ELSE "",
            metadata |-> st.metadata,
            hierarchy |-> [epics |-> Reconstruct(st)]]

\* agents/dynamodb_tools.py: DynamoDBTools.get_project_artifacts, which
\* parses the METADATA item and nothing else.
tools_get_project_artifacts(tbl, project_id) ==
  LET items == Query(tbl, PK(project_id))
      meta == SelectSeq(items, LAMBDA it : it.SK.S = MetadataSK)
  IN  IF items = <<>>
      THEN [success |-> FALSE, error |-> "No artifacts found"]
      ELSE [success |-> TRUE, project_id |-> project_id,
            metadata |-> IF meta = <<>> THEN << >>
                         ELSE _parse_dynamodb_item(meta[Len(meta)]),
            epics |-> <<>>]

\* ====================================================== the artifact store
IdleCall ==
  [pc |-> "idle", project_id |-> "", epics |-> <<>>, timestamp |-> 0,
   puts |-> <<>>, done |-> 0, before |-> EmptyTable, result |-> << >>]

ProjectName(project_id) == IF project_id = "P1" THEN "Alpha" ELSE "Beta"

NoneRunning == \A w \in Writers : wcall[w].pc # "putting"

\* store_test_artifacts up to its first put: the timestamp is taken, the
\* counts and the items are computed from the input.
EnterStore(w, project_id, epics) ==
  /\ wcall[w].pc = "idle"
  /\ clock' = clock + 1
  /\ wcall' = [wcall EXCEPT ![w] =
       [pc |-> "putting", project_id |-> project_id, epics |-> epics,
        timestamp |-> clock',
        puts |-> StorePuts(project_id, ProjectName(project_id), "S1", epics, clock'),
        done |-> 0, before |-> table, result |-> << >>]]
  /\ resp' = <<>>
  /\ UNCHANGED table
  /\ UNCHANGED svars

\* The one call of the single-call specification: on the empty table, with
\* an input tree of up to MaxNodes entities.
BeginSingle ==
  \E epics \in SingleTrees : EnterStore("w1", "P1", epics)

\* A caller starts store_test_artifacts while no other call is in progress.
\* The project of the first call is named P1.
BeginStore(w) ==
  /\ NoneRunning
  /\ w = "w2" => wcall["w1"].pc = "done"
  /\ \E project_id \in ProjectIds, epics \in SeqTrees :
       /\ w = "w1" => project_id = "P1"
       /\ EnterStore(w, project_id, epics)

\* The next put_item of the call succeeds.
PutNext(w) ==
  /\ wcall[w].pc = "putting"
  /\ wcall[w].done < Len(wcall[w].puts)
  /\ table' = PutItem(table, wcall[w].puts[wcall[w].done + 1])
  /\ wcall' = [wcall EXCEPT ![w].done = @ + 1]
  /\ UNCHANGED <<clock, resp>>
  /\ UNCHANGED svars

\* PutFails as a writer that rolls the table back to its state before the
\* call when a put fails.
PutFailsRollback(w) ==
  /\ wcall[w].pc = "putting"
  /\ wcall[w].done < Len(wcall[w].puts)
  /\ wcall' = [wcall EXCEPT ![w].pc = "done",
                            ![w].result = StoreError(wcall[w].project_id)]
  /\ table' = wcall[w].before
  /\ UNCHANGED <<clock, resp>>
  /\ UNCHANGED svars

\* The next put_item raises ClientError: the except clause returns.
PutFails(w) ==
  /\ wcall[w].pc = "putting"
  /\ wcall[w].done < Len(wcall[w].puts)
  /\ wcall' = [wcall EXCEPT ![w].pc = "done",
                            ![w].result = StoreError(wcall[w].project_id)]
  /\ UNCHANGED <<table, clock, resp>>
  /\ UNCHANGED svars

\* Every put succeeded: the call returns its success dictionary.
ReturnStore(w) ==
  /\ wcall[w].pc = "putting"
  /\ wcall[w].done = Len(wcall[w].puts)
  /\ wcall' = [wcall EXCEPT ![w].pc = "done",
                            ![w].result =
                              StoreSuccess(wcall[w].project_id,
                                           ProjectName(wcall[w].project_id),
                                           wcall[w].epics, wcall[w].timestamp)]
  /\ UNCHANGED <<table, clock, resp>>
  /\ UNCHANGED svars

\* GET /api/projects/{project_id}/artifacts, between store calls.
GetProjectArtifacts(project_id) ==
  /\ NoneRunning
  /\ resp' = [by |-> "api", project_id |-> project_id,
              body |-> get_project_artifacts(table, project_id)]
  /\ UNCHANGED <<table, wcall, clock>>
  /\ UNCHANGED svars

\* get_project_artifacts_tool, between store calls.
ToolsGetProjectArtifacts(project_id) ==
  /\ NoneRunning
  /\ resp' = [by |-> "tools", project_id |-> project_id,
              body |-> tools_get_project_artifacts(table, project_id)]
  /\ UNCHANGED <<table, wcall, clock>>
  /\ UNCHANGED svars

InitTable ==
  /\ table = EmptyTable
  /\ wcall = [w \in Writers |-> IdleCall]
  /\ clock = 0
  /\ resp = <<>>

NextStore ==
  \/ \E w \in Writers : BeginStore(w)
  \/ \E w \in Writers : PutNext(w)
  \/ \E w \in Writers : PutFails(w)
  \/ \E w \in Writers : ReturnStore(w)
  \/ \E p \in ProjectIds : GetProjectArtifacts(p)

NextSingle ==
  \/ BeginSingle
  \/ PutNext("w1")
  \/ PutFails("w1")
  \/ ReturnStore("w1")
  \/ \E p \in ProjectIds : GetProjectArtifacts(p)
  \/ \E p \in ProjectIds : ToolsGetProjectArtifacts(p)

\* ------------------------------------------------- the backing store adapter
\* mcp-servers/dynamodb: put_item and delete_item of single items, with no
\* check of the item's ancestors.  The items are those of the complete tree
\* over the model's ids under project P1.
FullListing ==
  << [path |-> <<"E1">>], [path |-> <<"E1", "F1">>],
     [path |-> <<"E1", "F1", "U1">>],
     [path |-> <<"E1", "F1", "U1", "T1">>],
     [path |-> <<"E1", "F1", "U1", "T2">>],
     [path |-> <<"E2">>], [path |-> <<"E2", "F1">>],
     [path |-> <<"E2", "F1", "U1">>],
     [path |-> <<"E2", "F1", "U1", "T1">>],
     [path |-> <<"E2", "F1", "U1", "T2">>] >>

AdapterItems ==
  LET puts == StorePuts("P1", "Alpha", "S1",
                        EpicsOf(WithData(FullListing, [name |-> "a"])), 0)
  IN  { puts[i] : i \in 1..Len(puts) }

\* DynamoDBClient.put_item
AdapterPut(item) ==
  /\ table' = PutItem(table, item)
  /\ resp' = <<>>
  /\ UNCHANGED <<wcall, clock>>
  /\ UNCHANGED svars

\* DynamoDBClient.delete_item
AdapterDelete(key) ==
  /\ key \in DOMAIN table
  /\ table' = [k \in DOMAIN table \ {key} |-> table[k]]
  /\ resp' = <<>>
  /\ UNCHANGED <<wcall, clock>>
  /\ UNCHANGED svars

NextAdapter ==
  \/ \E item \in AdapterItems : AdapterPut(item)
  \/ \E key \in DOMAIN table : AdapterDelete(key)
  \/ GetProjectArtifacts("P1")
  \/ ToolsGetProjectArtifacts("P1")

\* ------------------------------------------- store calls that overlap
\* A caller starts store_test_artifacts on project P1, whether or not the
\* other call is in progress.
BeginOverlapping(w) ==
  \E epics \in SeqTrees : EnterStore(w, "P1", epics)

NextOverlap ==
  \/ \E w \in Writers : BeginOverlapping(w)
  \/ \E w \in Writers : PutNext(w)
  \/ \E w \in Writers : PutFails(w)
  \/ \E w \in Writers : ReturnStore(w)

\* -------------------------------------------------- the update tools
\* Largest number of update calls that follow the store call.
MaxUpdates == 2

\* The attributes update_use_case_tool and update_test_case_tool set when
\* the update data has them: strings, and lists of strings.
UseCaseStrings ==
  {"title", "description", "priority", "review_status", "jira_issue_id",
   "jira_issue_key", "jira_issue_url", "jira_status", "model_explanation",
   "comments"}

UseCaseLists == {"acceptance_criteria", "test_scenarios_outline", "compliance_mapping"}

TestCaseStrings ==
  {"test_case_title", "test_type", "priority", "expected_result",
   "review_status", "jira_issue_id", "jira_issue_key", "jira_issue_url",
   "jira_status", "model_explanation", "comments"}

TestCaseLists == {"preconditions", "test_steps", "compliance_mapping"}

\* The update data of the calls.
UseCaseUpdates ==
  { [title |-> "b"],
    [acceptance_criteria |-> <<"c1">>],
    [acceptance_criteria |-> <<"c2">>, priority |-> "High"],
    [use_case_id |-> "U9", title |-> "b"] }

TestCaseUpdates ==
  { [test_case_title |-> "b"],
    [test_steps |-> <<"s1">>, priority |-> "High"] }

\* The input trees of the store call the updates follow: one epic with one
\* feature, one use case and its test cases.
UpdateTrees ==
  { epics \in SingleTrees :
      /\ Len(epics) = 1
      /\ Len(epics[1].features) = 1
      /\ Len(epics[1].features[1].use_cases) = 1
      /\ Len(epics[1].features[1].use_cases[1].test_cases) >= 1 }

\* update_parts / expr_attr_values: the attributes of the SET expression.
SetAttributes(data, strings, lists, timestamp) ==
  [k \in (DOMAIN data \cap (strings \cup lists)) \cup {"updated_at"} |->
     IF k = "updated_at" THEN S(timestamp)
     ELSE IF k \in lists
     THEN [L |-> [i \in 1..Len(data[k]) |-> S(data[k][i])]]
     ELSE S(data[k])]

\* update_item replacing the item by the attributes of the expression.
UpdateItemReplace(tbl, key, sets) ==
  [k \in DOMAIN tbl \cup {key} |->
     IF k = key THEN Merge([PK |-> S(key[1]), SK |-> S(key[2])], sets)
     ELSE tbl[k]]

\* update_item appending to the list attributes it sets.
UpdateItemAppend(tbl, key, sets) ==
  LET old == IF key \in DOMAIN tbl THEN tbl[key]
             ELSE [PK |-> S(key[1]), SK |-> S(key[2])]
      new == [k \in DOMAIN sets |->
                IF "L" \in DOMAIN sets[k] /\ k \in DOMAIN old
                THEN [L |-> old[k].L \o sets[k].L]
                ELSE sets[k]]
  IN  [k \in DOMAIN tbl \cup {key} |->
         IF k = key THEN Merge(old, new) ELSE tbl[k]]

\* boto3 update_item with UpdateExpression 'SET a = :a, ...' and no
\* ConditionExpression: the attributes are set on the item under the key,
\* and an item of the key and the attributes is created when none is stored.
UpdateItem(tbl, key, sets) ==
  LET old == IF key \in DOMAIN tbl THEN tbl[key]
             ELSE [PK |-> S(key[1]), SK |-> S(key[2])]
  IN  [k \in DOMAIN tbl \cup {key} |->
         IF k = key THEN Merge(old, sets) ELSE tbl[k]]

\* What the call before this one was, when it was an update.
Previous ==
  IF resp # <<>> /\ "key" \in DOMAIN resp
  THEN [key |-> resp.key, data |-> resp.data, success |-> resp.body.success]
  ELSE << >>

\* An update tool's call: the update_item succeeds, or raises ClientError.
UpdateCall(by, project_id, id, sk, sets, data) ==
  LET key == <<PK(project_id), sk>>
      call == [by |-> by, project_id |-> project_id, key |-> key,
               data |-> data, before |-> table, prev |-> Previous]
  IN  /\ NoneRunning
      /\ clock <= MaxUpdates
      /\ clock' = clock + 1
      /\ \/ /\ table' = UpdateItem(table, key, sets)
            /\ resp' = Merge(call, [body |-> [success |-> TRUE,
                                              project_id |-> project_id,
                                              id |-> id,
                                              updated_at |-> clock']])
         \/ /\ table' = table
            /\ resp' = Merge(call, [body |-> [success |-> FALSE,
                                              error |-> "DynamoDB error"]])
      /\ UNCHANGED wcall
      /\ UNCHANGED svars

\* update_use_case_tool
UpdateUseCase(project_id, epic_id, feature_id, use_case_id, use_case) ==
  UpdateCall("update_use_case", project_id, use_case_id,
             UseCaseSK(epic_id, feature_id, use_case_id),
             SetAttributes(use_case, UseCaseStrings, UseCaseLists, clock + 1),
             use_case)

\* update_test_case_tool
UpdateTestCase(project_id, epic_id, feature_id, use_case_id, test_case_id, test_case) ==
  UpdateCall("update_test_case", project_id, test_case_id,
             TestCaseSK(epic_id, feature_id, use_case_id, test_case_id),
             SetAttributes(test_case, TestCaseStrings, TestCaseLists, clock + 1),
             test_case)

\* The store call the updates follow.
BeginUpdated == \E epics \in UpdateTrees : EnterStore("w1", "P1", epics)

NextUpdate ==
  \/ BeginUpdated
  \/ PutNext("w1")
  \/ PutFails("w1")
  \/ ReturnStore("w1")
  \/ /\ wcall["w1"].pc = "done"
     /\ \E use_case \in UseCaseUpdates :
          UpdateUseCase("P1", "E1", "F1", "U1", use_case)
  \/ /\ wcall["w1"].pc = "done"
     /\ \E test_case \in TestCaseUpdates :
          UpdateTestCase("P1", "E1", "F1", "U1", "T1", test_case)

\* ------------------------------------------- identifiers that hold '#'
HashEpics ==
  { [epic_id |-> "E1", epic_name |-> "a",
     features |-> << [feature_id |-> "F1", feature_name |-> "a",
                      use_cases |-> <<>>] >>],
    [epic_id |-> HashId, epic_name |-> "a", features |-> <<>>],
    [epic_id |-> "E2", epic_name |-> "a", features |-> <<>>] }

\* The input trees: the sequences of different epics of HashEpics.
HashTrees ==
  { epics \in UNION { [1..n -> HashEpics] : n \in 1..Cardinality(HashEpics) } :
      \A i, j \in 1..Len(epics) : epics[i] = epics[j] => i = j }

BeginHash == \E epics \in HashTrees : EnterStore("w1", "P1", epics)

NextHash ==
  \/ BeginHash
  \/ PutNext("w1")
  \/ PutFails("w1")
  \/ ReturnStore("w1")
  \/ \E epic_id \in {"E1", HashId} :
       UpdateUseCase("P1", epic_id, "F1", "U1", [title |-> "b"])

\* ================================================= the session manager
\* Bounds of the session model: the clock runs to MaxTime hours, a session
\* holds up to MaxMessages messages, and a write to a serverless index is
\* visible to reads at most MaxLag seconds later.
MaxTime == 2
MaxMessages == 2
MaxLag == 4

\* SessionService.get_session(max_retries=5)
max_retries == 5
\* SessionService.DEFAULT_TTL_HOURS
DEFAULT_TTL_HOURS == 24
\* OpenSearchClient.index_document: time.sleep(3.0) on a serverless index
ServerlessIndexDelay == 3

SessionIds == {"S1"}
Callers == {"c1", "c2"}
valid_types == {"generation", "enhancement", "migration"}
valid_statuses == {"active", "complete", "expired", "error"}
SessionTypeInputs == {"generation", "draft"}
StatusInputs == valid_statuses \cup {"paused"}
RoleInputs == {"user", "agent"}
ContentInputs == {"hello"}
ContextInputs == { [k0 |-> "x", k1 |-> "x"] }
PartialInputs == { [k1 |-> "y", k2 |-> "y"] }
TtlInputs == {0, 1}

None == [none |-> TRUE]

\* How a call ended: return value, or raise exception.
Return(value) == [value |-> value]
Raise(exception) == [error |-> exception]
Pending == [pending |-> TRUE]

IdleSession ==
  [op |-> "", pc |-> "idle", sid |-> "", role |-> "", content |-> "",
   partial |-> << >>, log |-> <<>>, waits |-> <<>>, updates |-> << >>,
   result |-> Pending]

\* ---------------------------------------------------- OpenSearchClient
\* client.index keeping the messages of the document it replaces.
IndexDocumentKeeping(idx, doc_id, document) ==
  [k \in DOMAIN idx \cup {doc_id} |->
     IF k = doc_id
     THEN (IF doc_id \in DOMAIN idx
           THEN [document EXCEPT !.messages = idx[doc_id].messages]
           ELSE document)
     ELSE idx[k]]

\* client.index: the document replaces whatever is stored under the id.
IndexDocument(idx, doc_id, document) ==
  [k \in DOMAIN idx \cup {doc_id} |-> IF k = doc_id THEN document ELSE idx[k]]

\* client.update with body {'doc': updates}: the named fields are replaced.
UpdateDocument(idx, doc_id, updates) ==
  [idx EXCEPT ![doc_id] = Merge(@, updates)]

\* client.delete
DeleteDocument(idx, doc_id) == [k \in DOMAIN idx \ {doc_id} |-> idx[k]]

\* get_document: the document as reads see it, None when not found.
get_document(doc_id) == IF doc_id \in DOMAIN seen THEN seen[doc_id] ELSE None

\* The effect of a write on what reads see: at once with refresh=True, and
\* on a serverless index after the lag, of which slept seconds have passed
\* when the call returns.
ApplyWrite(newIndex, slept) ==
  /\ index' = newIndex
  /\ IF serverless
     THEN /\ lag' = IF MaxLag > slept THEN MaxLag - slept ELSE 0
          /\ seen' = IF lag' = 0 THEN newIndex ELSE seen
     ELSE /\ lag' = 0
          /\ seen' = newIndex

\* time.sleep(seconds) of the caller
Sleep(seconds) ==
  /\ lag' = IF lag > seconds THEN lag - seconds ELSE 0
  /\ seen' = IF lag' = 0 THEN index ELSE seen
  /\ UNCHANGED index

\* ------------------------------------------------------ SessionService
\* Expiry read off the status field rather than expires_at.
_is_expired_by_status(session) == Get(session, "status", "") = "expired"

_is_expired(session) ==
  IF "expires_at" \notin DOMAIN session THEN FALSE
  ELSE now > session.expires_at

Finish(c, op, result) ==
  scall' = [scall EXCEPT ![c] = [IdleSession EXCEPT !.op = op, !.result = result]]

\* create_session without the check of the session type.
create_session_unchecked(c, session_type, session_id, context, ttl_hours) ==
  LET ttl == IF ttl_hours = 0 THEN DEFAULT_TTL_HOURS ELSE ttl_hours
      session_doc ==
        [session_id |-> session_id, session_type |-> session_type,
         project_id |-> "P1", user_id |-> "system",
         context |-> context, messages |-> <<>>, status |-> "active",
         created_at |-> now, updated_at |-> now, expires_at |-> now + ttl]
  IN  \/ /\ ApplyWrite(IndexDocument(index, session_id, session_doc),
                     IF serverless THEN ServerlessIndexDelay ELSE 0)
         /\ Finish(c, "create", Return(session_id))
      \/ /\ Finish(c, "create", Raise("Exception: Failed to create session"))
         /\ UNCHANGED <<index, seen, lag>>

create_session(c, session_type, session_id, context, ttl_hours) ==
  IF session_type \notin valid_types
  THEN /\ Finish(c, "create", Raise("ValueError: Invalid session type"))
       /\ UNCHANGED <<index, seen, lag>>
  ELSE LET ttl == IF ttl_hours = 0 THEN DEFAULT_TTL_HOURS ELSE ttl_hours
           session_doc ==
             [session_id |-> session_id, session_type |-> session_type,
              project_id |-> "P1", user_id |-> "system",
              context |-> context, messages |-> <<>>, status |-> "active",
              created_at |-> now, updated_at |-> now, expires_at |-> now + ttl]
       IN  \/ /\ ApplyWrite(IndexDocument(index, session_id, session_doc),
                          IF serverless THEN ServerlessIndexDelay ELSE 0)
              /\ Finish(c, "create", Return(session_id))
           \/ /\ Finish(c, "create", Raise("Exception: Failed to create session"))
              /\ UNCHANGED <<index, seen, lag>>

CreateSession(c) ==
  /\ scall[c].pc = "idle"
  /\ \E session_type \in SessionTypeInputs, session_id \in SessionIds,
        context \in ContextInputs, ttl_hours \in TtlInputs :
       create_session(c, session_type, session_id, context, ttl_hours)
  /\ UNCHANGED <<serverless, now>>
  /\ UNCHANGED avars

\* create_session with any integer for ttl_hours, negative ones included.
TtlAnyInputs == {-1, 0, 1}

CreateSessionAnyTtl(c) ==
  /\ scall[c].pc = "idle"
  /\ \E session_id \in SessionIds, context \in ContextInputs,
        ttl_hours \in TtlAnyInputs :
       create_session(c, "generation", session_id, context, ttl_hours)
  /\ UNCHANGED <<serverless, now>>
  /\ UNCHANGED avars

\* create_session of a session that is not stored yet.
CreateOnce(c) ==
  /\ \A sid \in SessionIds : sid \notin DOMAIN index
  /\ CreateSession(c)

Enter(c, op, sid, role, content, partial) ==
  /\ scall[c].pc = "idle"
  /\ scall' = [scall EXCEPT ![c] =
       [IdleSession EXCEPT !.op = op, !.pc = "reading", !.sid = sid,
                           !.role = role, !.content = content,
                           !.partial = partial]]
  /\ UNCHANGED <<index, seen, lag, serverless, now>>
  /\ UNCHANGED avars

BeginGet(c) == \E sid \in SessionIds : Enter(c, "get", sid, "", "", << >>)

BeginAppend(c) ==
  \E sid \in SessionIds, role \in RoleInputs, content \in ContentInputs :
    /\ \A docs \in {index, seen} :
         sid \in DOMAIN docs => Len(docs[sid].messages) < MaxMessages
    /\ Enter(c, "append", sid, role, content, << >>)

BeginUpdateContext(c) ==
  \E sid \in SessionIds, partial \in PartialInputs :
    Enter(c, "update_context", sid, "", "", partial)

\* append_message writing the new message alone.
FoundFresh(c, session) ==
  LET k == scall[c]
  IN  CASE k.op = "get" ->
             [k EXCEPT !.pc = "idle", !.result = Return(session)]
        [] k.op = "append" ->
             IF _is_expired(session)
             THEN [k EXCEPT !.pc = "idle", !.result = Raise("ValueError: Session expired")]
             ELSE [k EXCEPT !.pc = "writing",
                            !.updates =
                              [messages |->
                                 << [role |-> k.role, content |-> k.content,
                                     timestamp |-> now] >>]]
        [] k.op = "update_context" ->
             [k EXCEPT !.pc = "writing",
                       !.updates =
                         [context |-> Merge(Get(session, "context", << >>),
                                            k.partial)]]

\* update_context storing the context updates in place of the context.
FoundReplace(c, session) ==
  LET k == scall[c]
  IN  CASE k.op = "get" ->
             [k EXCEPT !.pc = "idle", !.result = Return(session)]
        [] k.op = "append" ->
             IF _is_expired(session)
             THEN [k EXCEPT !.pc = "idle", !.result = Raise("ValueError: Session expired")]
             ELSE [k EXCEPT !.pc = "writing",
                            !.updates =
                              [messages |->
                                 Append(Get(session, "messages", <<>>),
                                        [role |-> k.role, content |-> k.content,
                                         timestamp |-> now])]]
        [] k.op = "update_context" ->
             [k EXCEPT !.pc = "writing", !.updates = [context |-> k.partial]]

\* What the caller of get_session does with a session it got.
Found(c, session) ==
  LET k == scall[c]
  IN  CASE k.op = "get" ->
             [k EXCEPT !.pc = "idle", !.result = Return(session)]
        [] k.op = "append" ->
             IF _is_expired(session)
             THEN [k EXCEPT !.pc = "idle", !.result = Raise("ValueError: Session expired")]
             ELSE [k EXCEPT !.pc = "writing",
                            !.updates =
                              [messages |->
                                 Append(Get(session, "messages", <<>>),
                                        [role |-> k.role, content |-> k.content,
                                         timestamp |-> now])]]
        [] k.op = "update_context" ->
             [k EXCEPT !.pc = "writing",
                       !.updates =
                         [context |-> Merge(Get(session, "context", << >>),
                                            k.partial)]]

\* What the caller of get_session does when it returned None.
NotFound(c) ==
  LET k == scall[c]
  IN  IF k.op = "get" THEN [k EXCEPT !.pc = "idle", !.result = Return(None)]
      ELSE [k EXCEPT !.pc = "idle", !.result = Raise("ValueError: Session not found")]

\* The retry loop going round once more.
ReadStepOnceMore(c) ==
  LET k == scall[c]
      attempt == Len(k.log)
      session == get_document(k.sid)
  IN  /\ k.pc = "reading"
      /\ IF session # None
         THEN /\ scall' = [scall EXCEPT ![c] =
                   [Found(c, session) EXCEPT !.log = Append(k.log, TRUE)]]
              /\ UNCHANGED <<index, seen, lag>>
         ELSE IF attempt < max_retries
         THEN /\ scall' = [scall EXCEPT ![c].log = Append(k.log, FALSE),
                                        ![c].waits = Append(k.waits, attempt + 1)]
              /\ Sleep(attempt + 1)
         ELSE /\ scall' = [scall EXCEPT ![c] =
                   [NotFound(c) EXCEPT !.log = Append(k.log, FALSE)]]
              /\ UNCHANGED <<index, seen, lag>>
      /\ UNCHANGED <<serverless, now>>
      /\ UNCHANGED avars

\* The retry loop with waits that double: 1, 2, 4, 8 seconds.
ReadStepDoubling(c) ==
  LET k == scall[c]
      attempt == Len(k.log)
      session == get_document(k.sid)
  IN  /\ k.pc = "reading"
      /\ IF session # None
         THEN /\ scall' = [scall EXCEPT ![c] =
                   [Found(c, session) EXCEPT !.log = Append(k.log, TRUE)]]
              /\ UNCHANGED <<index, seen, lag>>
         ELSE IF attempt < max_retries - 1
         THEN /\ scall' = [scall EXCEPT ![c].log = Append(k.log, FALSE),
                                        ![c].waits = Append(k.waits, 2 ^ attempt)]
              /\ Sleep(2 ^ attempt)
         ELSE /\ scall' = [scall EXCEPT ![c] =
                   [NotFound(c) EXCEPT !.log = Append(k.log, FALSE)]]
              /\ UNCHANGED <<index, seen, lag>>
      /\ UNCHANGED <<serverless, now>>
      /\ UNCHANGED avars

\* One iteration of the retry loop of get_session.
ReadStep(c) ==
  LET k == scall[c]
      attempt == Len(k.log)
      session == get_document(k.sid)
  IN  /\ k.pc = "reading"
      /\ IF session # None
         THEN /\ scall' = [scall EXCEPT ![c] =
                   [Found(c, session) EXCEPT !.log = Append(k.log, TRUE)]]
              /\ UNCHANGED <<index, seen, lag>>
         ELSE IF attempt < max_retries - 1
         THEN /\ scall' = [scall EXCEPT ![c].log = Append(k.log, FALSE),
                                        ![c].waits = Append(k.waits, attempt + 1)]
              /\ Sleep(attempt + 1)
         ELSE /\ scall' = [scall EXCEPT ![c] =
                   [NotFound(c) EXCEPT !.log = Append(k.log, FALSE)]]
              /\ UNCHANGED <<index, seen, lag>>
      /\ UNCHANGED <<serverless, now>>
      /\ UNCHANGED avars

\* update_document letting the exception of a failed update through.
WriteStepRaises(c) ==
  LET k == scall[c]
      updates == Merge(k.updates, [updated_at |-> now])
  IN  /\ k.pc = "writing"
      /\ \/ /\ k.sid \in DOMAIN index
            /\ ApplyWrite(UpdateDocument(index, k.sid, updates), 0)
            /\ scall' = [scall EXCEPT ![c].pc = "idle", ![c].result = Return(TRUE)]
         \/ /\ scall' = [scall EXCEPT ![c].pc = "idle",
                                      ![c].result = Raise("OpenSearchException")]
            /\ UNCHANGED <<index, seen, lag>>
      /\ UNCHANGED <<serverless, now>>
      /\ UNCHANGED avars

\* update_document of append_message / update_context: the update succeeds
\* or raises (the document is missing, or the store is unavailable).
WriteStep(c) ==
  LET k == scall[c]
      updates == Merge(k.updates, [updated_at |-> now])
  IN  /\ k.pc = "writing"
      /\ \/ /\ k.sid \in DOMAIN index
            /\ ApplyWrite(UpdateDocument(index, k.sid, updates), 0)
            /\ scall' = [scall EXCEPT ![c].pc = "idle", ![c].result = Return(TRUE)]
         \/ /\ scall' = [scall EXCEPT ![c].pc = "idle", ![c].result = Return(FALSE)]
            /\ UNCHANGED <<index, seen, lag>>
      /\ UNCHANGED <<serverless, now>>
      /\ UNCHANGED avars

\* update_status that also empties the messages of the session.
update_status_reset(idx, session_id, status) ==
  UpdateDocument(idx, session_id,
                 [status |-> status, updated_at |-> now, messages |-> <<>>])

update_status(idx, session_id, status) ==
  UpdateDocument(idx, session_id, [status |-> status, updated_at |-> now])

UpdateStatus(c) ==
  /\ scall[c].pc = "idle"
  /\ \E session_id \in SessionIds, status \in StatusInputs :
       IF status \notin valid_statuses
       THEN /\ Finish(c, "update_status", Raise("ValueError: Invalid status"))
            /\ UNCHANGED <<index, seen, lag>>
       ELSE \/ /\ session_id \in DOMAIN index
               /\ ApplyWrite(update_status(index, session_id, status), 0)
               /\ Finish(c, "update_status", Return(TRUE))
            \/ /\ Finish(c, "update_status", Return(FALSE))
               /\ UNCHANGED <<index, seen, lag>>
  /\ UNCHANGED <<serverless, now>>
  /\ UNCHANGED avars

DeleteSession(c) ==
  /\ scall[c].pc = "idle"
  /\ \E session_id \in SessionIds :
       \/ /\ session_id \in DOMAIN index
          /\ ApplyWrite(DeleteDocument(index, session_id), 0)
          /\ Finish(c, "delete", Return(TRUE))
       \/ /\ Finish(c, "delete", Return(FALSE))
          /\ UNCHANGED <<index, seen, lag>>
  /\ UNCHANGED <<serverless, now>>
  /\ UNCHANGED avars

\* update_status(session_id, expired) of each of the sessions sids.
UpdateAll(idx, sids) ==
  [sid \in DOMAIN idx |->
     IF sid \in sids THEN update_status(idx, sid, "expired")[sid] ELSE idx[sid]]

\* SessionService.cleanup_expired_sessions: search(query, size=100)
search_size == 100

\* The ways to leave n elements out of a set.
RECURSIVE Leaving(_, _)
Leaving(set, n) ==
  IF n = 0 THEN {set}
  ELSE UNION { Leaving(set \ {x}, n - 1) : x \in set }

\* client.search with body {'query', 'size'}: the matching documents when
\* there are at most size of them, and any size of them when there are more.
SearchHits(matching, size) ==
  IF Cardinality(matching) <= size THEN {matching}
  ELSE Leaving(matching, Cardinality(matching) - size)

\* The loop of cleanup_expired_sessions over the hits of the search:
\* update_status(expired) of each hit; the updates in failed do not succeed.
cleanup_expired_sessions(c, expired_sessions, failed) ==
  LET cleaned == { sid \in expired_sessions \ failed : sid \in DOMAIN index }
  IN  /\ \A sid \in expired_sessions \ failed : sid \in DOMAIN index
      /\ IF cleaned = {} THEN UNCHANGED <<index, seen, lag>>
         ELSE ApplyWrite(UpdateAll(index, cleaned), 0)
      /\ Finish(c, "cleanup", Return(Cardinality(cleaned)))

\* cleanup_expired_sessions: the search for expires_at < now, then the loop.
CleanupExpiredSessions(c) ==
  /\ scall[c].pc = "idle"
  /\ \E expired_sessions \in
          SearchHits({ sid \in DOMAIN seen : seen[sid].expires_at < now },
                     search_size) :
       \E failed \in SUBSET expired_sessions :
         cleanup_expired_sessions(c, expired_sessions, failed)
  /\ UNCHANGED <<serverless, now>>
  /\ UNCHANGED avars

\* cleanup_expired_sessions, run once, while every update succeeds.
CleanupAvailable(c) ==
  /\ scall[c].pc = "idle"
  /\ scall[c].op # "cleanup"
  /\ \E expired_sessions \in
          SearchHits({ sid \in DOMAIN seen : seen[sid].expires_at < now },
                     search_size) :
       cleanup_expired_sessions(c, expired_sessions, {})
  /\ UNCHANGED <<serverless, now>>
  /\ UNCHANGED avars

\* create_session without a session_id, in the first hour: the id is a new
\* uuid, here the number of the session; there are sessions until there is
\* one more than a search returns.
CreateFresh(c) ==
  /\ scall[c].pc = "idle"
  /\ now = 0
  /\ Cardinality(DOMAIN index) <= search_size
  /\ \E context \in ContextInputs :
       create_session(c, "generation", Cardinality(DOMAIN index) + 1, context, 1)
  /\ UNCHANGED <<serverless, now>>
  /\ UNCHANGED avars

\* An hour passes, between calls.
Tick ==
  /\ now < MaxTime
  /\ \A c \in Callers : scall[c].pc = "idle"
  /\ now' = now + 1
  /\ UNCHANGED <<index, seen, lag, serverless, scall>>
  /\ UNCHANGED avars

\* The serverless index makes the writes so far visible to reads.
Refresh ==
  /\ lag > 0
  /\ lag' = 0
  /\ seen' = index
  /\ UNCHANGED <<index, serverless, now, scall>>
  /\ UNCHANGED avars

InitSessionVars(flag) ==
  /\ index = << >>
  /\ seen = << >>
  /\ lag = 0
  /\ serverless = flag
  /\ now = 0
  /\ scall = [c \in Callers |-> IdleSession]

\* The session service on an index with refresh=True, one call at a time.
InitSession == InitTable /\ InitSessionVars(FALSE)

NextSession ==
  \/ CreateSession("c1")
  \/ BeginGet("c1")
  \/ BeginAppend("c1")
  \/ BeginUpdateContext("c1")
  \/ ReadStep("c1")
  \/ WriteStep("c1")
  \/ UpdateStatus("c1")
  \/ DeleteSession("c1")
  \/ CleanupExpiredSessions("c1")
  \/ Tick

SpecSession == InitSession /\ [][NextSession]_vars

\* The session service on a serverless index: a session is created, messages
\* are appended and the session is read while the index lags.
InitLag == InitTable /\ InitSessionVars(TRUE)

NextLag ==
  \/ CreateSession("c1")
  \/ BeginAppend("c1")
  \/ BeginGet("c1")
  \/ ReadStep("c1")
  \/ WriteStep("c1")
  \/ Refresh

SpecLag == InitLag /\ [][NextLag]_vars

\* The session service with sessions of any ttl_hours: they are created,
\* read, appended to and cleaned up as the hours pass.
NextTtl ==
  \/ CreateSessionAnyTtl("c1")
  \/ BeginGet("c1")
  \/ BeginAppend("c1")
  \/ ReadStep("c1")
  \/ WriteStep("c1")
  \/ CleanupExpiredSessions("c1")
  \/ Tick

SpecTtl == InitSession /\ [][NextTtl]_vars

\* Many sessions: they are created in the first hour, the hours pass, and
\* cleanup_expired_sessions runs while the store is available.
NextCleanup ==
  \/ CreateFresh("c1")
  \/ CleanupAvailable("c1")
  \/ Tick

SpecCleanup == InitSession /\ [][NextCleanup]_vars

\* Two callers append to one session, on an index with refresh=True: the
\* reads and the writes of their calls interleave.
NextRace ==
  \/ CreateOnce("c1")
  \/ \E c \in Callers : BeginAppend(c)
  \/ \E c \in Callers : ReadStep(c)
  \/ \E c \in Callers : WriteStep(c)

SpecRace == InitSession /\ [][NextRace]_vars

\* A session on a serverless index is created, changed and created again
\* under the same id, while reads lag behind the writes.
NextRecreate ==
  \/ CreateSession("c1")
  \/ BeginAppend("c1")
  \/ BeginUpdateContext("c1")
  \/ ReadStep("c1")
  \/ WriteStep("c1")
  \/ UpdateStatus("c1")
  \/ Refresh

SpecRecreate == InitLag /\ [][NextRecreate]_vars

\* ------------------------------------------------ the artifact store alone
InitStore == InitTable /\ InitSessionVars(FALSE)

\* Store calls one after the other, and the artifact listing.
Spec == InitStore /\ [][NextStore]_vars

\* One store call of a larger tree, and both readers.
SpecSingle == InitStore /\ [][NextSingle]_vars

\* The backing store adapter and both readers.
SpecAdapter == InitStore /\ [][NextAdapter]_vars

\* One store call and the update tools.
SpecUpdate == InitStore /\ [][NextUpdate]_vars

\* One store call and update_use_case_tool, with identifiers that hold '#'.
SpecHash == InitStore /\ [][NextHash]_vars

\* Two store calls on one project whose puts interleave.
SpecOverlap == InitStore /\ [][NextOverlap]_vars

\* ================================================ claims: artifact store
\* The entities of a nested tree (input or response), each as <<path, own
\* fields>>; the path is read off the nesting.
Strip(d, key) == [k \in DOMAIN d \ {key} |-> d[k]]

SeqRange(s) == { s[i] : i \in 1..Len(s) }

FlattenTree(epics) ==
  UNION { LET e == epics[i]
              fs == Get(e, "features", <<>>)
          IN  { << <<e.epic_id>>, Strip(e, "features") >> } \cup
              UNION { LET f == fs[j]
                          us == Get(f, "use_cases", <<>>)
                      IN  { << <<e.epic_id, f.feature_id>>, Strip(f, "use_cases") >> } \cup
                          UNION { LET u == us[k]
                                      ts == Get(u, "test_cases", <<>>)
                                  IN  { << <<e.epic_id, f.feature_id, u.use_case_id>>,
                                           Strip(u, "test_cases") >> } \cup
                                      { << <<e.epic_id, f.feature_id, u.use_case_id,
                                             ts[l].test_case_id>>, ts[l] >> :
                                        l \in 1..Len(ts) }
                                  : k \in 1..Len(us) }
                      : j \in 1..Len(fs) }
          : i \in 1..Len(epics) }

\* The response tree has the entities of the input tree, each under the same
\* parent and with the input's value in every field the input gives.
Isomorphic(input, output) ==
  LET I == FlattenTree(input)
      O == FlattenTree(output)
  IN  /\ { n[1] : n \in I } = { n[1] : n \in O }
      /\ \A i \in I, o \in O :
           i[1] = o[1] =>
             \A k \in DOMAIN i[2] : k \in DOMAIN o[2] /\ o[2][k] = i[2][k]

\* C1 (as claimed): after a successful store_test_artifacts on an empty
\* project, the tree GET /api/projects/{id}/artifacts returns is isomorphic
\* to the input tree.
RoundTrip ==
  ( /\ resp # <<>>
    /\ resp.by = "api"
    /\ resp.project_id = "P1"
    /\ wcall["w1"].pc = "done"
    /\ wcall["w1"].result.success )
  => /\ resp.body.success
     /\ Isomorphic(wcall["w1"].epics, resp.body.hierarchy.epics)

\* The same statement of the agent tool's reader, which returns no entity.
RoundTripTools ==
  ( /\ resp # <<>>
    /\ resp.by = "tools"
    /\ resp.project_id = "P1"
    /\ wcall["w1"].pc = "done"
    /\ wcall["w1"].result.success )
  => /\ resp.body.success
     /\ Isomorphic(wcall["w1"].epics, resp.body.epics)

\* A later call has begun after the call of w.
LaterBegan(w) ==
  \E v \in Writers : wcall[v].pc # "idle" /\ wcall[v].timestamp > wcall[w].timestamp

Written(w) == SubSeq(wcall[w].puts, 1, wcall[w].done)

\* C2: while a call is the latest one, and after it has returned, the table
\* is the table before the call with exactly the puts that succeeded applied
\* in order; a call of which a put failed has issued only the puts before
\* the failing one, has removed none of them and returns success = False.
PartialFailureNoRollback ==
  \A w \in Writers :
    (wcall[w].pc # "idle" /\ ~LaterBegan(w)) =>
      /\ table = PutAll(wcall[w].before, Written(w))
      /\ wcall[w].pc = "done" =>
           (wcall[w].result.success <=> wcall[w].done = Len(wcall[w].puts))

\* C2 witness: the second call failed after at least one put, on a table the
\* first call had written to.
PartialFailureWitness ==
  /\ wcall["w2"].pc = "done"
  /\ ~wcall["w2"].result.success
  /\ wcall["w2"].done >= 1
  /\ wcall["w2"].done < Len(wcall["w2"].puts)
  /\ wcall["w2"].before # EmptyTable
  /\ table # wcall["w2"].before

\* The numbers of epic, feature, use-case and test-case items in a sequence
\* of items, by the length of the sort key.
LevelCounts(items) ==
  LET n(len) == Cardinality({ i \in 1..Len(items) : Len(items[i].SK.S) = len })
  IN  [epics |-> n(2), features |-> n(4), use_cases |-> n(6), test_cases |-> n(8)]

\* C3 (as claimed): the result of a call that failed partway carries the
\* counts of the epics, features, use cases and test cases it had written.
ErrorCarriesCounts ==
  \A w \in Writers :
    (wcall[w].pc = "done" /\ ~wcall[w].result.success) =>
      /\ "artifact_counts" \in DOMAIN wcall[w].result
      /\ wcall[w].result.artifact_counts = LevelCounts(Written(w))

\* C10: the query on 'PROJECT#' + p returns an item for every key a call
\* wrote under project p, and every item it returns was put by a call on
\* project p.
PrefixCompleteness ==
  \A p \in ProjectIds :
    LET q == SeqRange(Query(table, PK(p)))
    IN  /\ \A w \in Writers :
             wcall[w].project_id = p =>
               \A i \in 1..wcall[w].done :
                 \E it \in q : KeyOf(it) = KeyOf(wcall[w].puts[i])
        /\ \A it \in q :
             \E w \in Writers :
               /\ wcall[w].project_id = p
               /\ \E i \in 1..wcall[w].done : wcall[w].puts[i] = it

\* C10 witness: two calls have written under two different projects.
PrefixCompletenessWitness ==
  /\ wcall["w1"].project_id = "P1" /\ wcall["w1"].done >= 2
  /\ wcall["w2"].project_id = "P2" /\ wcall["w2"].done >= 2
  /\ Len(Query(table, PK("P1"))) >= 2
  /\ Len(Query(table, PK("P2"))) >= 2

\* What GET /api/projects/P1/artifacts returns for the table as it is.
View == get_project_artifacts(table, "P1")

StoredPaths == { SelectSeq(k[2], LAMBDA tok : tok \notin {"EPIC", "FEATURE", "UC", "TC"}) :
                   k \in { k \in DOMAIN table : k[2] # MetadataSK } }

\* The stored paths all of whose ancestors are stored too.
Rooted == { p \in StoredPaths :
              \A n \in 1..Len(p) : SubSeq(p, 1, n) \in StoredPaths }

\* A stored test case whose use case is not stored.
OrphanTestCases ==
  { p \in StoredPaths : Len(p) = 4 /\ SubSeq(p, 1, 3) \notin StoredPaths }

\* The path an entity of a response names in its own id attributes.
Ident(d, len) ==
  SubSeq(<<Get(d, "epic_id", ""), Get(d, "feature_id", ""),
           Get(d, "use_case_id", ""), Get(d, "test_case_id", "")>>, 1, len)

\* C9 (as claimed): with an orphan test case stored, the read succeeds, its
\* tree has every stored entity whose ancestors are all stored, under its
\* own parent, and has no orphan test case under any use case.
OrphanTolerance ==
  ( /\ resp # <<>>
    /\ resp.by = "api"
    /\ OrphanTestCases # {} )
  => /\ resp.body.success
     /\ LET O == FlattenTree(resp.body.hierarchy.epics)
        IN  /\ \A p \in Rooted :
                 \E o \in O : o[1] = p /\ Ident(o[2], Len(p)) = p
            /\ \A o \in O : Ident(o[2], Len(o[1])) \notin OrphanTestCases


\* The paths of the entities of an input tree.
Entities(epics) == { n[1] : n \in FlattenTree(epics) }

\* C11 (as claimed): a store call that succeeded on the empty table has
\* stored one record per entity of its input tree, and the project record.
CollisionFree ==
  ( /\ wcall["w1"].pc = "done"
    /\ wcall["w1"].result.success
    /\ wcall["w1"].before = EmptyTable
    /\ resp = <<>> )
  => Cardinality(DOMAIN table) = Cardinality(Entities(wcall["w1"].epics)) + 1

\* The sort key the claim gives the entity of a path.
ClaimedSK(path) ==
  <<"EPIC", path[1]>>
  \o (IF Len(path) >= 2 THEN <<"FEATURE", path[2]>> ELSE <<>>)
  \o (IF Len(path) >= 3 THEN <<"UC", path[3]>> ELSE <<>>)
  \o (IF Len(path) >= 4 THEN <<"TC", path[4]>> ELSE <<>>)

\* C12: the first put of a store call is the project record under
\* <<'PROJECT#' + project_id, 'METADATA'>>; the other puts are, under the same
\* PK, the claimed sort keys of the entities of the input, each after the
\* put of its parent, whose sort key is a prefix of its own; and an update
\* tool addresses the use case E1/F1/U1 or the test case E1/F1/U1/T1 by the
\* key the store call wrote it under.
KeyEncoding ==
  /\ \A w \in Writers :
       wcall[w].pc # "idle" =>
         LET puts == wcall[w].puts
         IN  /\ KeyOf(puts[1]) = << <<"PROJECT", wcall[w].project_id>>, <<"METADATA">> >>
             /\ { puts[i].SK.S : i \in 2..Len(puts) }
                  = { ClaimedSK(path) : path \in Entities(wcall[w].epics) }
             /\ \A i \in 2..Len(puts) :
                  /\ puts[i].PK.S = <<"PROJECT", wcall[w].project_id>>
                  /\ Len(puts[i].SK.S) > 2 =>
                       \E j \in 2..(i - 1) :
                         /\ puts[j].SK.S = SubSeq(puts[i].SK.S, 1, Len(puts[i].SK.S) - 2)
                         /\ IsPrefixOf(puts[j].SK.S, puts[i].SK.S)
  /\ (resp # <<>> /\ "key" \in DOMAIN resp) =>
       LET path == IF resp.by = "update_use_case" THEN <<"E1", "F1", "U1">>
                   ELSE <<"E1", "F1", "U1", "T1">>
       IN  /\ resp.key = << <<"PROJECT", "P1">>, ClaimedSK(path) >>
           /\ path \in Entities(wcall["w1"].epics) =>
                \E i \in 1..Len(wcall["w1"].puts) :
                  KeyOf(wcall["w1"].puts[i]) = resp.key

\* C12 witness: an update of a test case has succeeded on the record the
\* store call wrote.
KeyEncodingWitness ==
  /\ resp # <<>>
  /\ resp.by = "update_test_case"
  /\ resp.body.success
  /\ resp.key \in DOMAIN resp.before
  /\ wcall["w1"].result.success

\* C13 (as claimed): a store call whose input has an identifier with '#'
\* issues no put and returns InvalidIdentifier, and an update call on such an
\* identifier fails and leaves the table as it was.
IdentifierValidation ==
  /\ \A w \in Writers :
       ( /\ wcall[w].pc # "idle"
         /\ \E path \in Entities(wcall[w].epics) :
              \E i \in 1..Len(path) : Tokens(path[i]) # <<path[i]>> )
       => /\ wcall[w].done = 0
          /\ wcall[w].pc = "done" =>
               /\ ~wcall[w].result.success
               /\ wcall[w].result.error = "InvalidIdentifier"
  /\ ( /\ resp # <<>> /\ "key" \in DOMAIN resp
       /\ Len(resp.key[2]) > 6 )
     => /\ ~resp.body.success
        /\ table = resp.before

\* The artifact_counts of the METADATA record of project p.
StoredCounts(p) ==
  LET m == table[<<PK(p), MetadataSK>>].artifact_counts.M
  IN  [epics |-> m.epics.N, features |-> m.features.N,
       use_cases |-> m.use_cases.N, test_cases |-> m.test_cases.N]

\* C14 (as claimed): when every store call so far has succeeded, the
\* artifact_counts of a project's METADATA record are the numbers of epic,
\* feature, use-case and test-case records stored under the project.
CountInvariant ==
  ( /\ NoneRunning
    /\ \A w \in Writers : wcall[w].pc = "done" => wcall[w].result.success )
  => \A p \in ProjectIds :
       <<PK(p), MetadataSK>> \in DOMAIN table =>
         StoredCounts(p) = LevelCounts(Query(table, PK(p)))

\* The numbers of paths of each length among the entities of an input tree.
CountsOf(epics) ==
  LET n(len) == Cardinality({ path \in Entities(epics) : Len(path) = len })
  IN  [epics |-> n(1), features |-> n(2), use_cases |-> n(3), test_cases |-> n(4)]

\* C15: the counts a successful store call returns, and the counts its first
\* put carries, are the numbers of entities of each level of its input tree,
\* whatever the table held before the call; for one epic, one feature, one
\* use case and two test cases they are 1, 1, 1 and 2.
CountsFromInput ==
  /\ \A w \in Writers :
       /\ wcall[w].pc # "idle" =>
            LET m == wcall[w].puts[1].artifact_counts.M
            IN  [epics |-> m.epics.N, features |-> m.features.N,
                 use_cases |-> m.use_cases.N, test_cases |-> m.test_cases.N]
                  = CountsOf(wcall[w].epics)
       /\ (wcall[w].pc = "done" /\ wcall[w].result.success) =>
            wcall[w].result.artifact_counts = CountsOf(wcall[w].epics)
  /\ _count_artifacts(
       << [epic_id |-> "E1",
           features |-> << [feature_id |-> "F1",
             use_cases |-> << [use_case_id |-> "U1",
               test_cases |-> << [test_case_id |-> "T1"],
                                 [test_case_id |-> "T2"] >>] >>] >>] >>)
       = [epics |-> 1, features |-> 1, use_cases |-> 1, test_cases |-> 2]

\* C15 witness: the second call has returned counts of a tree with a
\* feature, on a table that held another tree of the same project.
CountsFromInputWitness ==
  /\ wcall["w2"].pc = "done"
  /\ wcall["w2"].result.success
  /\ wcall["w2"].result.artifact_counts.features = 1
  /\ wcall["w2"].project_id = wcall["w1"].project_id
  /\ wcall["w1"].result.success
  /\ wcall["w1"].result.artifact_counts.epics = 2

\* A table without the created_at and updated_at of its items.
StripTimes(tbl) ==
  [k \in DOMAIN tbl |->
     [a \in DOMAIN tbl[k] \ {"created_at", "updated_at"} |-> tbl[k][a]]]

\* C16: a second successful store call with the arguments of the first
\* leaves the keys and, created_at and updated_at aside, the items the first
\* call left, and returns the same counts.
IdempotentUpsert ==
  ( /\ wcall["w1"].pc = "done" /\ wcall["w1"].result.success
    /\ wcall["w2"].pc = "done" /\ wcall["w2"].result.success
    /\ wcall["w2"].project_id = wcall["w1"].project_id
    /\ wcall["w2"].epics = wcall["w1"].epics )
  => /\ DOMAIN table = DOMAIN wcall["w2"].before
     /\ StripTimes(table) = StripTimes(wcall["w2"].before)
     /\ wcall["w2"].result.artifact_counts = wcall["w1"].result.artifact_counts

\* C16 witness: the second call has stored the tree of the first again, at
\* a later time.
IdempotentUpsertWitness ==
  /\ wcall["w1"].pc = "done" /\ wcall["w1"].result.success
  /\ wcall["w2"].pc = "done" /\ wcall["w2"].result.success
  /\ wcall["w2"].project_id = wcall["w1"].project_id
  /\ wcall["w2"].epics = wcall["w1"].epics
  /\ Len(wcall["w2"].epics) = 2
  /\ wcall["w2"].timestamp > wcall["w1"].timestamp
  /\ table # wcall["w2"].before

\* The last call was an update tool's call that returned success.
Updated == resp # <<>> /\ "key" \in DOMAIN resp /\ resp.body.success

\* The stored form of the value the update data gives field a.
Encoded(by, data, a) ==
  IF a \in (IF by = "update_use_case" THEN UseCaseLists ELSE TestCaseLists)
  THEN [L |-> [i \in 1..Len(data[a]) |-> S(data[a][i])]]
  ELSE S(data[a])

\* The update that has just succeeded on a stored record changed the fields
\* named and updated_at on that record, each named field to the value of
\* the update data, and nothing else in the table.
FrameOf(named) ==
  LET old == resp.before[resp.key]
      new == table[resp.key]
  IN  /\ DOMAIN table = DOMAIN resp.before
      /\ \A k \in DOMAIN table \ {resp.key} : table[k] = resp.before[k]
      /\ DOMAIN new = DOMAIN old \cup named \cup {"updated_at"}
      /\ \A a \in named : new[a] = Encoded(resp.by, resp.data, a)
      /\ new.updated_at = S(resp.body.updated_at)
      /\ \A a \in DOMAIN old \ (named \cup {"updated_at"}) : new[a] = old[a]

\* C17 (as claimed): a successful update of a stored record changes exactly
\* the fields that are keys of its update data, and updated_at.
UpdateFrameAnyKey ==
  (Updated /\ resp.key \in DOMAIN resp.before) => FrameOf(DOMAIN resp.data)

\* C17 (amended): a successful update of a stored record changes exactly
\* the keys of its update data that are fields the tool updates, and
\* updated_at: each such field is replaced wholesale by the value given,
\* a list by the list given; every other field of the record, the other keys
\* of the update data among them, and every other record keep their values.
UpdateFrame ==
  (Updated /\ resp.key \in DOMAIN resp.before) =>
    FrameOf(DOMAIN resp.data \cap
              (IF resp.by = "update_use_case"
               THEN UseCaseStrings \cup UseCaseLists
               ELSE TestCaseStrings \cup TestCaseLists))

\* C17 witness: an update has replaced the acceptance criteria an earlier
\* update left on the stored use case.
UpdateFrameWitness ==
  /\ Updated
  /\ resp.by = "update_use_case"
  /\ resp.key \in DOMAIN resp.before
  /\ "acceptance_criteria" \in DOMAIN resp.data
  /\ wcall["w1"].result.success
  /\ "acceptance_criteria" \in DOMAIN resp.before[resp.key]
  /\ resp.before[resp.key].acceptance_criteria.L = <<S("c1")>>
  /\ table[resp.key].acceptance_criteria.L = <<S("c2")>>
  /\ table[resp.key].priority = S("High")

\* C18 (as claimed): an update call on a key under which no record is stored
\* returns NotFoundError and leaves the table as it was.
UpdateNotFound ==
  ( /\ resp # <<>> /\ "key" \in DOMAIN resp
    /\ resp.key \notin DOMAIN resp.before )
  => /\ ~resp.body.success
     /\ resp.body.error = "NotFoundError"
     /\ table = resp.before

\* A table without the updated_at of its items.
StripUpdated(tbl) ==
  [k \in DOMAIN tbl |-> [a \in DOMAIN tbl[k] \ {"updated_at"} |-> tbl[k][a]]]

\* C19: a successful update that follows a successful update of the same
\* key with the same update data leaves, updated_at aside, the table the
\* first of the two left.
UpdateIdempotent ==
  ( /\ Updated
    /\ resp.prev # <<>>
    /\ resp.prev.success
    /\ resp.prev.key = resp.key
    /\ resp.prev.data = resp.data )
  => StripUpdated(table) = StripUpdated(resp.before)

\* C19 witness: the second of two equal updates of the test steps of the
\* stored test case has succeeded, later than the first.
UpdateIdempotentWitness ==
  /\ Updated
  /\ resp.by = "update_test_case"
  /\ resp.prev # <<>>
  /\ resp.prev.success
  /\ resp.prev.key = resp.key
  /\ resp.prev.data = resp.data
  /\ "test_steps" \in DOMAIN resp.data
  /\ wcall["w1"].result.success
  /\ table[resp.key].test_steps.L = <<S("s1")>>
  /\ table[resp.key].updated_at # resp.before[resp.key].updated_at

\* ============================================== claims: session manager
Raised(k, exception) == "error" \in DOMAIN k.result /\ k.result.error = exception

Returned(k) == "value" \in DOMAIN k.result

\* The steps of append_message, update_context, update_status,
\* cleanup_expired_sessions and get_session (not create, not delete).
SessionOpStep ==
  scall'["c1"].op \in {"append", "update_context", "update_status", "cleanup", "get"}

\* C4: over the steps of appendMessage, updateContext, updateStatus and
\* cleanupExpiredSessions on stored sessions, with calls one after the other
\* and reads that see the latest write, the session stays stored, its
\* messages before the step are a prefix of its messages after it, a
\* successful appendMessage(id, r, c) extends them by exactly the message
\* (r, c), and every other step leaves them as they are.
MessagesAppendOnly ==
  [][ \A sid \in SessionIds :
        (sid \in DOMAIN index /\ SessionOpStep) =>
          /\ sid \in DOMAIN index'
          /\ LET k == scall["c1"]
                 old == index[sid].messages
                 new == index'[sid].messages
             IN  /\ IsPrefixOf(old, new)
                 /\ IF /\ k.op = "append" /\ k.pc = "writing" /\ k.sid = sid
                       /\ scall'["c1"].result = Return(TRUE)
                    THEN new = Append(old, [role |-> k.role, content |-> k.content,
                                            timestamp |-> now])
                    ELSE new = old ]_vars

\* C4 witness: a second append has succeeded, on a session holding a message
\* of the other role.
MessagesAppendOnlyWitness ==
  /\ "S1" \in DOMAIN index
  /\ Len(index["S1"].messages) = 2
  /\ index["S1"].messages[1].role # index["S1"].messages[2].role
  /\ scall["c1"].op = "append"
  /\ scall["c1"].result = Return(TRUE)

\* C5: an appendMessage that reads a session whose expires_at is in the past
\* ends with the expired error, whatever the session's status, and one whose
\* last read still finds no session ends with the not-found error; neither
\* issues an update, and the stored sessions are as before.
AppendRejects ==
  [][ LET k == scall["c1"]
          k2 == scall'["c1"]
      IN  (k.op = "append" /\ k.pc = "reading" /\ k2.log # k.log) =>
            /\ (k.sid \in DOMAIN seen /\ seen[k.sid].expires_at < now) =>
                 /\ Raised(k2, "ValueError: Session expired")
                 /\ k2.pc = "idle"
                 /\ index' = index
            /\ (k.sid \notin DOMAIN seen) =>
                 /\ k2.pc # "writing"
                 /\ index' = index
                 /\ Len(k.log) = max_retries - 1 =>
                      /\ Raised(k2, "ValueError: Session not found")
                      /\ k2.pc = "idle" ]_vars

\* C5 witness: an append was rejected as expired on a session whose status
\* is active.
AppendRejectsWitness ==
  /\ scall["c1"].op = "append"
  /\ Raised(scall["c1"], "ValueError: Session expired")
  /\ "S1" \in DOMAIN index
  /\ index["S1"].status = "active"
  /\ index["S1"].expires_at < now

\* C6: a get_session call reads at most max_retries = 5 times, so it ends;
\* it reads again only after a read that found nothing, returns the session
\* at the first read that finds it, and returns None only after all 5 reads
\* found nothing.
BoundedRetry ==
  \A c \in Callers :
    LET k == scall[c]
        n == Len(k.log)
    IN  /\ n <= max_retries
        /\ \A i \in 1 .. n - 1 : ~k.log[i]
        /\ k.pc = "reading" => n < max_retries /\ (n > 0 => ~k.log[n])
        /\ (k.op = "get" /\ k.pc = "idle") =>
             /\ n >= 1
             /\ Returned(k)
             /\ IF k.result.value = None
                THEN n = max_retries /\ ~k.log[n]
                ELSE k.log[n]

\* C6 witness: a get_session call returned the session at its second read.
BoundedRetryWitness ==
  /\ scall["c1"].op = "get"
  /\ scall["c1"].pc = "idle"
  /\ scall["c1"].log = <<FALSE, TRUE>>
  /\ scall["c1"].result.value # None

\* C7 (as claimed): over the steps of the session operations other than
\* create and delete, the status of a stored session changes only from
\* active, and only to complete, expired or error.
StatusStateMachine ==
  [][ \A sid \in SessionIds :
        (sid \in DOMAIN index /\ sid \in DOMAIN index' /\ SessionOpStep) =>
          LET s == index[sid].status
              s2 == index'[sid].status
          IN  s2 # s => (s = "active" /\ s2 \in {"complete", "expired", "error"}) ]_vars

\* C8 (as claimed): on a lagging index, a getSession that follows a
\* successful appendMessage(id, 'user', 'hello') on a new session returns a
\* session whose messages are exactly that one message.
LagReadYourWrite ==
  LET k == scall["c1"]
  IN  ( /\ k.op = "get" /\ k.pc = "idle"
        /\ "S1" \in DOMAIN index
        /\ Len(index["S1"].messages) = 1 )
      => /\ k.result.value # None
         /\ Len(k.result.value.messages) = 1
         /\ k.result.value.messages[1].role = index["S1"].messages[1].role
         /\ k.result.value.messages[1].content = index["S1"].messages[1].content

\* C20: no stored session document has a session type outside generation,
\* enhancement and migration, and a create_session call that raises the
\* ValueError of an invalid session type leaves the index, and what reads of
\* it see, as they were: no document is written.
InvalidTypeNoWrite ==
  /\ [](\A sid \in DOMAIN index : index[sid].session_type \in valid_types)
  /\ [][ ( /\ scall'["c1"].op = "create"
           /\ Raised(scall'["c1"], "ValueError: Invalid session type") )
         => (index' = index /\ seen' = seen /\ lag' = lag) ]_vars

\* C20 witness: a create_session call with an invalid type has been
\* rejected while a session created before it is stored.
InvalidTypeNoWriteWitness ==
  /\ scall["c1"].op = "create"
  /\ Raised(scall["c1"], "ValueError: Invalid session type")
  /\ "S1" \in DOMAIN index
  /\ index["S1"].session_type = "generation"

\* C21 (as claimed): after a create_session call that returned, whatever
\* its ttl_hours, the stored session is active, has no messages, has the
\* context given, and expires_at is created_at plus the ttl, later than
\* created_at.
CreatedSessionShape ==
  (scall["c1"].op = "create" /\ Returned(scall["c1"])) =>
    LET doc == index[scall["c1"].result.value]
    IN  /\ doc.status = "active"
        /\ doc.messages = <<>>
        /\ doc.context \in ContextInputs
        /\ doc.expires_at - doc.created_at
             \in { IF t = 0 THEN DEFAULT_TTL_HOURS ELSE t : t \in TtlAnyInputs }
        /\ doc.expires_at > doc.created_at

\* C22: a step of update_context that returns True leaves a context that
\* has the keys of the stored context and of the updates, each key of the
\* updates with the value of the updates and every other key with its stored
\* value, and leaves messages, status and expires_at as they were; an
\* update_context whose last read finds no session ends with the not-found
\* error, and a step that ends with it leaves the index as it was.
UpdateContextMerges ==
  [][ LET k == scall["c1"]
          k2 == scall'["c1"]
      IN  /\ ( /\ k.op = "update_context" /\ k.pc = "writing"
               /\ k2.result = Return(TRUE) )
             => LET old == index[k.sid]
                    new == index'[k.sid]
                IN  /\ DOMAIN new.context = DOMAIN old.context \cup DOMAIN k.partial
                    /\ \A key \in DOMAIN k.partial : new.context[key] = k.partial[key]
                    /\ \A key \in DOMAIN old.context \ DOMAIN k.partial :
                         new.context[key] = old.context[key]
                    /\ new.messages = old.messages
                    /\ new.status = old.status
                    /\ new.expires_at = old.expires_at
          /\ ( /\ k.op = "update_context" /\ k.pc = "reading"
               /\ k2.pc # "reading" /\ k.sid \notin DOMAIN seen )
             => Raised(k2, "ValueError: Session not found")
          /\ ( /\ k.op = "update_context" /\ k.pc = "reading"
               /\ Raised(k2, "ValueError: Session not found") )
             => index' = index ]_vars

\* C22 witness: update_context has returned True on a session whose context
\* had a key the updates have and a key they do not have.
UpdateContextMergesWitness ==
  /\ scall["c1"].op = "update_context"
  /\ scall["c1"].pc = "idle"
  /\ scall["c1"].result = Return(TRUE)
  /\ index["S1"].context = [k0 |-> "x", k1 |-> "y", k2 |-> "y"]

\* C23: no stored session has a status outside active, complete, expired
\* and error; an update_status call that raises the ValueError of an invalid
\* status leaves the index as it was; and one that returns True leaves the
\* same sessions, each with the fields it had, all unchanged but status,
\* which is a valid status, and updated_at, which is the time of the call.
UpdateStatusValidates ==
  /\ [](\A sid \in DOMAIN index : index[sid].status \in valid_statuses)
  /\ [][ LET k2 == scall'["c1"]
         IN  /\ (k2.op = "update_status" /\ Raised(k2, "ValueError: Invalid status"))
                => index' = index
             /\ ( /\ k2.op = "update_status" /\ now' = now
                  /\ Returned(k2) /\ k2.result.value = TRUE )
                => /\ DOMAIN index' = DOMAIN index
                   /\ \E sid \in DOMAIN index :
                        /\ \A other \in DOMAIN index \ {sid} :
                             index'[other] = index[other]
                        /\ DOMAIN index'[sid] = DOMAIN index[sid]
                        /\ \A f \in DOMAIN index[sid] \ {"status", "updated_at"} :
                             index'[sid][f] = index[sid][f]
                        /\ index'[sid].status \in valid_statuses
                        /\ index'[sid].updated_at = now ]_vars

\* C23 witness: an update_status call with an invalid status has been
\* rejected on a session that an earlier call set to complete after a
\* message was appended to it.
UpdateStatusValidatesWitness ==
  /\ scall["c1"].op = "update_status"
  /\ Raised(scall["c1"], "ValueError: Invalid status")
  /\ "S1" \in DOMAIN index
  /\ index["S1"].status = "complete"
  /\ Len(index["S1"].messages) = 1

\* C24 (as claimed): a cleanup_expired_sessions call whose updates all
\* succeed leaves every stored session whose expires_at is before now with
\* status expired, leaves every other session as it was, and returns the
\* number of sessions whose expires_at is before now.
CleanupExpiresAll ==
  [][ (scall'["c1"].op = "cleanup" /\ now' = now) =>
        LET expired == { sid \in DOMAIN index : index[sid].expires_at < now }
        IN  /\ DOMAIN index' = DOMAIN index
            /\ \A sid \in expired : index'[sid].status = "expired"
            /\ \A sid \in DOMAIN index \ expired : index'[sid] = index[sid]
            /\ scall'["c1"].result = Return(Cardinality(expired)) ]_vars

\* The items that the puts of call w issued so far have stored under key.
PutSoFar(w, key) ==
  { wcall[w].puts[i] : i \in { j \in 1..wcall[w].done : KeyOf(wcall[w].puts[j]) = key } }

\* C25: while two store calls on one project interleave put by put, every
\* stored record is a complete item that one of the calls has put under its
\* key, and a step in which a call issues its next put leaves under the key
\* of that put exactly the item of that put, whatever the other call stored
\* there before, and leaves every other record as it was.
LastWriteWins ==
  /\ [](\A key \in DOMAIN table :
          table[key] \in PutSoFar("w1", key) \cup PutSoFar("w2", key))
  /\ [][ \A w \in Writers :
           (wcall'[w].done = wcall[w].done + 1) =>
             LET item == wcall[w].puts[wcall'[w].done]
             IN  /\ DOMAIN table' = DOMAIN table \cup {KeyOf(item)}
                 /\ table'[KeyOf(item)] = item
                 /\ \A key \in DOMAIN table \ {KeyOf(item)} :
                      table'[key] = table[key] ]_vars

\* C25 witness: both calls have returned success, the project record is the
\* one the second call put and an epic record is the one the first call put
\* over the record of the second call.
LastWriteWinsWitness ==
  /\ wcall["w1"].pc = "done" /\ wcall["w1"].result.success
  /\ wcall["w2"].pc = "done" /\ wcall["w2"].result.success
  /\ wcall["w1"].timestamp < wcall["w2"].timestamp
  /\ table[<<PK("P1"), MetadataSK>>].updated_at = S(wcall["w2"].timestamp)
  /\ \E key \in DOMAIN table :
       /\ table[key].updated_at = S(wcall["w1"].timestamp)
       /\ PutSoFar("w2", key) # {}

\* The sort key of the parent of the record of sort key sk: the project
\* record for an epic.
ParentSK(sk) == IF Len(sk) <= 2 THEN MetadataSK ELSE SubSeq(sk, 1, Len(sk) - 2)

\* C26: the first put of a store call is the project record; the put of
\* every other record comes after the put of its parent, and every put
\* between the two is of a record under that parent (the walk is
\* depth-first); and in every state of a call on the empty table, the state
\* a failed put leaves included, the parent of every stored record is stored.
ParentFirst ==
  wcall["w1"].pc # "idle" =>
    LET puts == wcall["w1"].puts
    IN  /\ puts[1].SK.S = MetadataSK
        /\ \A i \in 2..Len(puts) :
             \E j \in 1..(i - 1) :
               /\ puts[j].SK.S = ParentSK(puts[i].SK.S)
               /\ \A n \in (j + 1)..(i - 1) :
                    j > 1 => IsPrefixOf(puts[j].SK.S, puts[n].SK.S)
        /\ \A key \in DOMAIN table :
             key[2] # MetadataSK => <<key[1], ParentSK(key[2])>> \in DOMAIN table

\* C26 witness: a put has failed after the call stored a test case, with
\* puts of the call left to issue.
ParentFirstWitness ==
  /\ wcall["w1"].pc = "done"
  /\ ~wcall["w1"].result.success
  /\ wcall["w1"].done < Len(wcall["w1"].puts)
  /\ \E key \in DOMAIN table : Len(key[2]) = 8

\* C27 (as claimed): when the last calls of both callers are append_message
\* calls that returned True after reading the same messages, each before
\* the other wrote, the stored messages are the messages read and the two
\* messages appended.
NoLostMessage ==
  LET k1 == scall["c1"]
      k2 == scall["c2"]
  IN  ( /\ k1.op = "append" /\ k1.pc = "idle" /\ k1.result = Return(TRUE)
        /\ k2.op = "append" /\ k2.pc = "idle" /\ k2.result = Return(TRUE)
        /\ Len(k1.updates.messages) = Len(k2.updates.messages) )
      => LET stored == index["S1"].messages
             n == Len(k1.updates.messages)
         IN  /\ Len(stored) = n + 1
             /\ \E i \in 1..Len(stored) : stored[i] = k1.updates.messages[n]
             /\ \E i \in 1..Len(stored) : stored[i] = k2.updates.messages[n]

\* The write step of append_message and update_context ends with a return
\* value, never with an exception, and when the value is False the index is
\* as it was.
FailedUpdateReported ==
  LET k == scall["c1"]
      k2 == scall'["c1"]
  IN  (k.pc = "writing" /\ k.op \in {"append", "update_context"}) =>
        /\ k2.pc = "idle"
        /\ Returned(k2)
        /\ k2.result.value \in BOOLEAN
        /\ k2.result.value = FALSE => (index' = index /\ seen' = seen)

\* C28 (as claimed): a failed update of append_message or update_context is
\* reported by the return value False with the stored session unchanged, and
\* after a create_session call whose put failed no session is stored.
FailureNoSession ==
  [][ /\ FailedUpdateReported
      /\ ( /\ scall'["c1"].op = "create"
           /\ Raised(scall'["c1"], "Exception: Failed to create session") )
         => \A sid \in SessionIds : sid \notin DOMAIN index' ]_vars

\* C28 (amended): a failed update of append_message or update_context is
\* reported by the return value False with the stored session unchanged, and
\* a create_session call whose put failed raises and leaves the index as it
\* was: no session is created, and a session stored under the id before the
\* call stays as it was.
FailureIsReported ==
  [][ /\ FailedUpdateReported
      /\ ( /\ scall'["c1"].op = "create"
           /\ Raised(scall'["c1"], "Exception: Failed to create session") )
         => (index' = index /\ seen' = seen) ]_vars

\* C28 witness: an append_message call has returned False on a stored
\* session that holds the message of an earlier call.
FailureIsReportedWitness ==
  /\ scall["c1"].op = "append"
  /\ scall["c1"].pc = "idle"
  /\ scall["c1"].result = Return(FALSE)
  /\ "S1" \in DOMAIN index
  /\ Len(index["S1"].messages) = 1

\* The number of reads of a call that found nothing.
FailedReads(k) == Cardinality({ i \in 1..Len(k.log) : ~k.log[i] })

CreateReplaces ==
  [][ ( /\ scall["c1"].pc = "idle"
        /\ scall'["c1"].op = "create"
        /\ Returned(scall'["c1"]) )
      => LET sid == scall'["c1"].result.value
             doc == index'[sid]
         IN  /\ DOMAIN index' = DOMAIN index \cup {sid}
             /\ doc.status = "active"
             /\ doc.messages = <<>>
             /\ doc.context \in ContextInputs
             /\ doc.created_at = now
             /\ doc.updated_at = now
             /\ doc.session_type \in valid_types ]_vars

\* C30 witness: create_session has returned for an id under which reads
\* still see the session stored before, completed, with a message and a
\* merged context, while the index holds the new document.
CreateReplacesWitness ==
  /\ scall["c1"].op = "create"
  /\ Returned(scall["c1"])
  /\ "S1" \in DOMAIN seen
  /\ Len(seen["S1"].messages) = 1
  /\ seen["S1"].status = "complete"
  /\ "k2" \in DOMAIN seen["S1"].context
  /\ index["S1"].messages = <<>>
  /\ index["S1"].status = "active"
  /\ "k2" \notin DOMAIN index["S1"].context

====
